---- MODULE Spec2Model ----
(***************************************************************************)
(* Model of the local Docker runner of testground                          *)
(* (pkg/runner/local_docker.go): LocalDockerRunner.Healthcheck,            *)
(* LocalDockerRunner.Run, deleteContainers and newDataNetwork, together    *)
(* with the part of the container engine and of the file system they act   *)
(* on.                                                                     *)
(***************************************************************************)
EXTENDS Integers, Sequences, FiniteSets, TLC

(* ------------------------------ bounds --------------------------------- *)

\* concurrent callers of Run
NumRuns == 2
\* concurrent callers of Healthcheck
NumCheckers == 2
\* test cases of the plan (len(input.TestPlan.TestCases))
NumTestCases == 1
\* groups of a run input
MaxGroups == 2
\* instances of one group
MaxInstances == 2
\* engine / file system calls that fail in one behaviour
MaxFaults == 1

\* length of the table behind nextDataNetwork
NumSubnets == 3

Runs == 1 .. NumRuns
Checkers == 1 .. NumCheckers

(* ------------------------------ state ---------------------------------- *)

VARIABLES
  lk,                \* LocalDockerRunner.lk: [readers: set of runs, writer: checker or 0]
  controlNetworkID,  \* LocalDockerRunner.controlNetworkID ("" when unset)
  outputsDir,        \* LocalDockerRunner.outputsDir ("" when unset)
  infra,             \* engine and file system: control network, outputs dir, redis, sidecar
  dataNets,          \* engine: run |-> index of the subnet of its data network, -1 if none
  conts,             \* engine: container id |-> [ctl, data, running] of existing containers
  dirs,              \* file system: output directories created under outputsDir
  run,               \* per caller of Run: its locals and its position
  hcpc,              \* per caller of Healthcheck: its position
  hc,                \* locals of the Healthcheck that holds the lock, and the last report
  faults             \* failed engine / file system calls so far

vars == <<lk, controlNetworkID, outputsDir, infra, dataNets, conts, dirs, run, hcpc, hc, faults>>

(* ------------------------------ helpers -------------------------------- *)

\* results an engine or file system call can have: TRUE is success
Outcomes == IF faults < MaxFaults THEN {TRUE, FALSE} ELSE {TRUE}

Count(f) == Cardinality({x \in DOMAIN f : ~f[x]})

RECURSIVE SumSeq(_)
SumSeq(s) == IF s = <<>> THEN 0 ELSE Head(s) + SumSeq(Tail(s))

RangeOf(s) == {s[x] : x \in DOMAIN s}

ContainerIDs == Runs \X (1 .. MaxGroups + 1) \X (0 .. MaxInstances)

(* --------------------------- configuration ----------------------------- *)

defaultConfig == [KeepContainers |-> FALSE, Unstarted |-> FALSE, Background |-> FALSE]

\* mergo.Merge(&cfg, src, mergo.WithOverride): a non-zero field of src replaces dst's
Merge(dst, src) == [f \in DOMAIN dst |-> IF src[f] # FALSE THEN src[f] ELSE dst[f]]

Configs == [KeepContainers : BOOLEAN, Unstarted : BOOLEAN, Background : BOOLEAN]

(* ----------------------------- run inputs ------------------------------ *)

GroupLists == UNION {[1 .. n -> 0 .. MaxInstances] : n \in 1 .. MaxGroups}

\* RunInput: Seq, Groups (instance counts), TotalInstances, RunnerConfig
\* (cfgOk = FALSE: a RunnerConfig that mergo.Merge rejects, e.g. nil)
RunInputs ==
  {[Seq |-> s, Groups |-> g, TotalInstances |-> t, RunnerConfig |-> c, cfgOk |-> o] :
     s \in -1 .. NumTestCases, g \in GroupLists, t \in 0 .. MaxGroups * MaxInstances + 1,
     c \in Configs, o \in BOOLEAN}

\* the inputs explored for a single run
SingleInputs ==
  {in \in RunInputs :
     /\ in.TotalInstances \in {SumSeq(in.Groups), SumSeq(in.Groups) + 1}
     /\ in.Seq # 0 => /\ in.Groups = <<1>>
                      /\ in.RunnerConfig = defaultConfig
                      /\ in.cfgOk
                      /\ in.TotalInstances = 1
     /\ ~in.cfgOk => in.RunnerConfig = defaultConfig
     /\ in.TotalInstances # SumSeq(in.Groups) => in.RunnerConfig = defaultConfig /\ in.cfgOk}

\* the inputs explored for concurrent runs
ConcInputs ==
  {in \in RunInputs :
     /\ in.Seq \in {0, NumTestCases}
     /\ in.Groups \in {<<1>>}
     /\ in.TotalInstances = 1
     /\ in.cfgOk
     /\ ~in.RunnerConfig.Unstarted}

\* the inputs explored for the sanity check of Seq: one group of one instance
SeqInputs ==
  {in \in RunInputs :
     /\ in.Groups = <<1>>
     /\ in.TotalInstances = 1
     /\ in.cfgOk
     /\ in.RunnerConfig = defaultConfig}

\* the inputs explored for the lock: one group of one instance, a valid or
\* a negative Seq, a configuration that merges or not
LockInputs ==
  {in \in RunInputs :
     /\ in.Seq \in {-1, 0}
     /\ in.Groups = <<1>>
     /\ in.TotalInstances = 1
     /\ in.RunnerConfig = defaultConfig}

NoInput == [Seq |-> 0, Groups |-> <<>>, TotalInstances |-> 0,
            RunnerConfig |-> defaultConfig, cfgOk |-> TRUE]

NoDel == [call |-> "none", ids |-> <<>>, removed |-> {}, pending |-> {},
          i |-> 0, second |-> FALSE, merr |-> {}, logged |-> {}, failed |-> {}]

\* listed is the number of data networks that existed when the run listed
\* them, ord the number of data networks created before the run's own;
\* cancelled says that the ctx of the run is done, cnet that the data network
\* existed when it was cancelled, inuse that the subnet chosen was the subnet of
\* an existing data network when it was chosen
IdleRun == [pc |-> "idle", input |-> NoInput, ctlID |-> "", outDir |-> "",
            cancelled |-> FALSE, cnet |-> FALSE, inuse |-> FALSE,
            k |-> -1, listed |-> -1, ord |-> -1, net |-> FALSE, cfg |-> defaultConfig,
            gi |-> 1, ii |-> 0, err |-> "nil", cerr |-> "nil",
            containers |-> <<>>, onData |-> {},
            tried |-> {}, gerr |-> "nil", li |-> 1, lerr |-> "nil", deferred |-> FALSE,
            del |-> NoDel, ret |-> [out |-> FALSE, err |-> "nil"]]

(* --------------------------- healthcheck items ------------------------- *)

\* api.HealthcheckItem (the message is not modelled); ZeroItem is the zero value
Item(n, s) == [Name |-> n, Status |-> s]
ZeroItem == Item("", "")

\* the engine and file system objects the healthcheck looks after
FreshInfra == [ctlNet |-> FALSE, outputs |-> FALSE, redis |-> "missing", sidecar |-> "missing"]

\* api.HealthcheckReport and the error returned with it, with what the call did:
\* done (it has returned), before (the system it checked), errs (the check
\* calls that errored), ensured / failedFixes / created (the fix calls made,
\* those that failed, the objects they created), prev (the call before it)
NoReport == [Checks |-> <<>>, Fixes |-> <<>>, err |-> "nil", fix |-> FALSE,
             done |-> FALSE, before |-> FreshInfra, errs |-> {},
             ensured |-> {}, failedFixes |-> {}, created |-> {}, prev |-> "none"]

\* the runner after construction on a fresh system, f calls having failed
InitWith(f) ==
  /\ lk = [readers |-> {}, writer |-> 0]
  /\ controlNetworkID = ""
  /\ outputsDir = ""
  /\ infra = FreshInfra
  /\ dataNets = [r \in Runs |-> -1]
  /\ conts = <<>>
  /\ dirs = {}
  /\ run = [r \in Runs |-> IdleRun]
  /\ hcpc = [h \in Checkers |-> "idle"]
  /\ hc = NoReport
  /\ faults = f

Init == InitWith(0)

\* the same, with an engine and a file system whose calls never fail
InitReliable == InitWith(MaxFaults)

\* the states the engine and the file system can be in when the runner starts
InfraStates ==
  [ctlNet : BOOLEAN, outputs : BOOLEAN,
   redis : {"missing", "exited", "running"}, sidecar : {"missing", "exited", "running"}]

\* the runner after construction on a system in any state
InitAny ==
  /\ lk = [readers |-> {}, writer |-> 0]
  /\ controlNetworkID = ""
  /\ outputsDir = ""
  /\ infra \in InfraStates
  /\ dataNets = [r \in Runs |-> -1]
  /\ conts = <<>>
  /\ dirs = {}
  /\ run = [r \in Runs |-> IdleRun]
  /\ hcpc = [h \in Checkers |-> "idle"]
  /\ hc = NoReport
  /\ faults = 0

(* ------------------------------ the lock ------------------------------- *)

\* RLock that does not wait for the writer
CanRLockIgnoringWriter == TRUE

\* sync.RWMutex: RLock succeeds when no writer holds the lock
CanRLock == lk.writer = 0

\* sync.RWMutex: Lock succeeds when nobody holds the lock
CanLock == lk.writer = 0 /\ lk.readers = {}

(* ----------------------------- Healthcheck ------------------------------ *)

\* docker.CheckBridgeNetwork("testground-control") and the switch on its result
CtrlNetCheck(ok) ==
  IF ~ok THEN Item("control-network", "Aborted")
  ELSE IF infra.ctlNet THEN Item("control-network", "OK")
  ELSE Item("control-network", "Failed")

\* docker.CheckContainer(name) and the switch on its result, as written for redis
ContainerCheck(name, ok, state) ==
  IF ~ok THEN Item(name, "Aborted")
  ELSE IF state = "missing" THEN Item(name, "Failed")
  ELSE IF state = "running" THEN Item(name, "OK")
  ELSE Item(name, "Failed")

\* os.Stat(r.outputsDir) and the classification of its result
OutputsDirCheck(ok) ==
  IF ~ok THEN Item("outputs-dir", "Aborted")
  ELSE IF infra.outputs THEN Item("outputs-dir", "OK")
  ELSE Item("outputs-dir", "Failed")

\* the value of redisContainerCheck when the report is built: the branch of the
\* sidecar check for a non-existent sidecar container assigns to it
RedisItem(okRedis, okSidecar) ==
  IF okSidecar /\ infra.sidecar = "missing"
  THEN Item("sidecar-container", "Failed")
  ELSE ContainerCheck("redis-container", okRedis, infra.redis)

\* the value of sidecarContainerCheck when the report is built
SidecarItem(okSidecar) ==
  IF okSidecar /\ infra.sidecar = "missing"
  THEN ZeroItem
  ELSE ContainerCheck("sidecar-container", okSidecar, infra.sidecar)

\* what a returned report says of its call: for a call with fix = true whose
\* fix attempts all reported OK, "repaired", or "healthy" when there were none
Summary(rep) ==
  IF ~rep.done THEN "none"
  ELSE IF rep.fix /\ rep.err = "nil" /\ \A i \in DOMAIN rep.Fixes : rep.Fixes[i].Status = "OK"
  THEN (IF rep.Fixes = <<>> THEN "healthy" ELSE "repaired")
  ELSE "other"

\* if !fix { return report, nil }, read with the test always false
WantsFixAlways(fix) == TRUE

\* if !fix { return report, nil }
WantsFix(fix) == fix

\* the value of a field of the shared state, were it not reset
ResetStateKept(v) == v

\* "Reset state.": r.controlNetworkID = "", r.outputsDir = ""
ResetState(v) == ""

\* Lock, reset of the shared state, creation of the engine client
HcBegin(h) ==
  /\ hcpc[h] = "idle"
  /\ CanLock
  /\ \E fix \in BOOLEAN, ok \in Outcomes :
       /\ controlNetworkID' = ResetState(controlNetworkID)
       /\ outputsDir' = ResetState(outputsDir)
       /\ faults' = IF ok THEN faults ELSE faults + 1
       /\ IF ok
          THEN /\ lk' = [lk EXCEPT !.writer = h]
               /\ hcpc' = [hcpc EXCEPT ![h] = "check"]
               /\ hc' = [NoReport EXCEPT !.fix = fix, !.prev = Summary(hc)]
          ELSE /\ lk' = lk
               /\ hcpc' = hcpc
               /\ hc' = [NoReport EXCEPT !.fix = fix, !.err = "client", !.done = TRUE,
                                         !.prev = Summary(hc)]
  /\ UNCHANGED <<infra, dataNets, conts, dirs, run>>

\* the four checks and the report; returns here when fix is false
HcCheck(h) ==
  /\ hcpc[h] = "check"
  /\ \E e \in [{"net", "redis", "sidecar", "stat"} -> BOOLEAN] :
       /\ faults + Count(e) <= MaxFaults
       /\ faults' = faults + Count(e)
       /\ LET ctrlNetCheck == CtrlNetCheck(e["net"])
              checks == <<ctrlNetCheck, OutputsDirCheck(e["stat"]),
                          RedisItem(e["redis"], e["sidecar"]), SidecarItem(e["sidecar"])>>
          IN /\ controlNetworkID' = IF ctrlNetCheck.Status = "OK" THEN "ctl" ELSE controlNetworkID
             /\ outputsDir' = "outputs"
             /\ hc' = [hc EXCEPT !.Checks = checks, !.before = infra,
                                  !.errs = {x \in DOMAIN e : ~e[x]},
                                  !.done = ~WantsFix(hc.fix)]
  /\ IF WantsFix(hc.fix)
     THEN /\ hcpc' = [hcpc EXCEPT ![h] = "fix"]
          /\ lk' = lk
     ELSE /\ hcpc' = [hcpc EXCEPT ![h] = "idle"]
          /\ lk' = [lk EXCEPT !.writer = 0]
  /\ UNCHANGED <<infra, dataNets, conts, dirs, run>>

\* one fix entry of a container, made whatever the result of its check
ContainerFixUnconditional(name, check, cid, ok) ==
  IF cid = "" THEN <<Item(name, "Omitted")>>
  ELSE IF ok THEN <<Item(name, "OK")>>
  ELSE <<Item(name, "Failed")>>

\* one fix entry of a container, with the "no control network" case left out
ContainerFixNoOmit(name, check, cid, ok) ==
  IF check.Status = "OK" THEN <<>>
  ELSE IF ok THEN <<Item(name, "OK")>>
  ELSE <<Item(name, "Failed")>>

\* one fix entry of a container: omitted without control network, else ensured
ContainerFix(name, check, cid, ok) ==
  IF check.Status = "OK" THEN <<>>
  ELSE IF cid = "" THEN <<Item(name, "Omitted")>>
  ELSE IF ok THEN <<Item(name, "OK")>>
  ELSE <<Item(name, "Failed")>>

\* the state of a singleton container after a fix step that leaves it as it was
ContainerAfterFixUntouched(check, cid, ok, state) == state

\* the state of a singleton container after its fix step
ContainerAfterFix(check, cid, ok, state) ==
  IF check.Status # "OK" /\ cid # "" /\ ok THEN "running" ELSE state

\* docker.EnsureBridgeNetwork, os.MkdirAll, docker.EnsureContainer: an object is
\* created only when none of that name exists
EnsureCreates(x) ==
  CASE x = "net" -> ~infra.ctlNet
    [] x = "dir" -> ~infra.outputs
    [] x = "redis" -> infra.redis = "missing"
    [] OTHER -> infra.sidecar = "missing"

\* the fix logic (fix = true): control network, outputs dir, redis, sidecar
HcFix(h) ==
  /\ hcpc[h] = "fix"
  /\ \E f \in [{"net", "dir", "redis", "sidecar"} -> BOOLEAN] :
       LET ctrlNetCheck == hc.Checks[1]
           outputsDirCheck == hc.Checks[2]
           redisContainerCheck == hc.Checks[3]
           sidecarContainerCheck == hc.Checks[4]
           tryNet == ctrlNetCheck.Status # "OK"
           tryDir == outputsDirCheck.Status # "OK"
           cid == IF tryNet /\ f["net"] THEN "ctl" ELSE controlNetworkID
           tryRedis == redisContainerCheck.Status # "OK" /\ cid # ""
           trySidecar == sidecarContainerCheck.Status # "OK" /\ cid # ""
           fixNet == IF ~tryNet THEN <<>>
                     ELSE IF f["net"] THEN <<Item("control-network", "OK")>>
                     ELSE <<Item("control-network", "Failed")>>
           fixDir == IF ~tryDir THEN <<>>
                     ELSE IF f["dir"] THEN <<Item("outputs-dir", "OK")>>
                     ELSE <<Item("outputs-dir", "Failed")>>
           tried == [x \in DOMAIN f |->
                       CASE x = "net" -> tryNet [] x = "dir" -> tryDir
                         [] x = "redis" -> tryRedis [] OTHER -> trySidecar]
           fixes == fixNet \o fixDir
                    \o ContainerFix("redis-container", redisContainerCheck, cid, f["redis"])
                    \o ContainerFix("sidecar-container", sidecarContainerCheck, cid, f["sidecar"])
       IN /\ tryNet \/ f["net"]
          /\ tryDir \/ f["dir"]
          /\ tryRedis \/ f["redis"]
          /\ trySidecar \/ f["sidecar"]
          /\ faults + Count(f) <= MaxFaults
          /\ faults' = faults + Count(f)
          /\ controlNetworkID' = cid
          /\ infra' = [ctlNet |-> infra.ctlNet \/ (tryNet /\ f["net"]),
                       outputs |-> infra.outputs \/ (tryDir /\ f["dir"]),
                       redis |-> ContainerAfterFix(redisContainerCheck, cid, f["redis"], infra.redis),
                       sidecar |-> ContainerAfterFix(sidecarContainerCheck, cid, f["sidecar"], infra.sidecar)]
          /\ hc' = [hc EXCEPT !.Fixes = fixes, !.done = TRUE,
                               !.ensured = {x \in DOMAIN f : tried[x]},
                               !.failedFixes = {x \in DOMAIN f : tried[x] /\ ~f[x]},
                               !.created = {x \in DOMAIN f :
                                              tried[x] /\ f[x] /\ EnsureCreates(x)}]
  /\ hcpc' = [hcpc EXCEPT ![h] = "idle"]
  /\ lk' = [lk EXCEPT !.writer = 0]
  /\ UNCHANGED <<outputsDir, dataNets, conts, dirs, run>>

(* -------------------------------- Run ---------------------------------- *)

\* the sanity check with its upper comparison off by one
InvalidSeqOffByOne(seq) == seq < 0 \/ seq > NumTestCases

\* the sanity check of the test case sequence number
InvalidSeq(seq) == seq < 0 \/ seq >= NumTestCases

\* nextDataNetwork(k): index of the k-th subnet of the table, -1 when k exceeds it
nextDataNetwork(k) == IF k < NumSubnets THEN k ELSE -1

\* the subnet of the control network, which is no entry of the table
controlSubnet == -2

\* the number of data networks created so far, removed ones included
ListedNetworksEver == Cardinality({q \in Runs : run[q].net})

\* len(networks) of cli.NetworkList with the label testground.name=default
ListedNetworks == Cardinality({q \in Runs : dataNets[q] # -1})

\* the engine refuses a bridge network whose subnet overlaps an existing one
Overlaps(k) == \E q \in Runs : dataNets[q] = k

\* the ids handed to deleteContainers and the state of its receive loop
StartDel(call, ids) == [NoDel EXCEPT !.call = call, !.ids = ids]

\* a return statement of Run: the deferred teardown (when registered) runs
\* before the deferred RUnlock
Finish(r, rec, out, err) ==
  /\ run' = [run EXCEPT ![r] =
       [rec EXCEPT !.ret = [out |-> out, err |-> err],
                   !.pc = IF rec.deferred THEN "del" ELSE "returned",
                   !.del = IF rec.deferred THEN StartDel("defer", rec.containers) ELSE rec.del]]
  /\ lk' = IF rec.deferred THEN lk ELSE [lk EXCEPT !.readers = @ \ {r}]

\* a step of Run that does not return
Step(r, rec) ==
  /\ run' = [run EXCEPT ![r] = rec]
  /\ lk' = lk

\* Run has been called and has not returned
InFlight(r) == run[r].pc \notin {"idle", "returned"}

Fault(ok) == faults' = IF ok THEN faults ELSE faults + 1

\* the outcomes of an engine call made with the ctx of the run (or a context
\* derived from it): it fails once the ctx is cancelled
CtxOutcomes(r) == IF run[r].cancelled THEN {FALSE} ELSE Outcomes

CtxFault(r, ok) == faults' = IF ok \/ run[r].cancelled THEN faults ELSE faults + 1

\* RLock, sanity check of Seq, creation of the engine client, template runenv
RunBegin(r, inputs) ==
  /\ run[r].pc = "idle"
  /\ CanRLock
  /\ \E in \in inputs :
       LET rec == [run[r] EXCEPT !.input = in, !.ctlID = controlNetworkID,
                                 !.outDir = outputsDir]
       IN IF InvalidSeq(in.Seq)
          THEN /\ run' = [run EXCEPT ![r] =
                    [rec EXCEPT !.pc = "returned", !.ret = [out |-> FALSE, err |-> "seq"]]]
               /\ lk' = lk
               /\ faults' = faults
          ELSE \E ok \in Outcomes :
                 /\ Fault(ok)
                 /\ IF ok
                    THEN /\ run' = [run EXCEPT ![r] = [rec EXCEPT !.pc = "list"]]
                         /\ lk' = [lk EXCEPT !.readers = @ \cup {r}]
                    ELSE /\ run' = [run EXCEPT ![r] =
                              [rec EXCEPT !.pc = "returned",
                                          !.ret = [out |-> FALSE, err |-> "client"]]]
                         /\ lk' = lk
  /\ UNCHANGED <<controlNetworkID, outputsDir, infra, dataNets, conts, dirs, hcpc, hc>>

\* newDataNetwork: cli.NetworkList and nextDataNetwork(len(networks))
RunListNetworks(r) ==
  /\ run[r].pc = "list"
  /\ \E ok \in CtxOutcomes(r) :
       /\ CtxFault(r, ok)
       /\ IF ~ok THEN Finish(r, run[r], FALSE, "list")
          ELSE IF nextDataNetwork(ListedNetworks) = -1
          THEN Finish(r, run[r], FALSE, "exhausted")
          ELSE Step(r, [run[r] EXCEPT !.k = nextDataNetwork(ListedNetworks),
                                      !.listed = Cardinality({q \in Runs : dataNets[q] # -1}),
                                      !.inuse = Overlaps(nextDataNetwork(ListedNetworks)),
                                      !.pc = "netcreate"])
  /\ UNCHANGED <<controlNetworkID, outputsDir, infra, dataNets, conts, dirs, hcpc, hc>>

\* newDataNetwork: docker.NewBridgeNetwork with the subnet chosen
RunNewBridgeNetwork(r) ==
  /\ run[r].pc = "netcreate"
  /\ \E ok \in (IF Overlaps(run[r].k) THEN {FALSE} ELSE CtxOutcomes(r)) :
       /\ faults' = IF ok \/ Overlaps(run[r].k) \/ run[r].cancelled THEN faults ELSE faults + 1
       /\ IF ok
          THEN /\ dataNets' = [dataNets EXCEPT ![r] = run[r].k]
               /\ Step(r, [run[r] EXCEPT !.net = TRUE, !.pc = "merge",
                                          !.ord = Cardinality({q \in Runs : run[q].net})])
          ELSE /\ dataNets' = dataNets
               /\ Finish(r, run[r], FALSE, "netcreate")
  /\ UNCHANGED <<controlNetworkID, outputsDir, infra, conts, dirs, hcpc, hc>>

\* merge of the incoming configuration with the default configuration
RunMerge(r) ==
  /\ run[r].pc = "merge"
  /\ IF run[r].input.cfgOk
     THEN Step(r, [run[r] EXCEPT !.cfg = Merge(defaultConfig, run[r].input.RunnerConfig),
                                 !.gi = 1, !.pc = "group"])
     ELSE Finish(r, run[r], FALSE, "merge")
  /\ UNCHANGED <<controlNetworkID, outputsDir, infra, dataNets, conts, dirs, hcpc, hc, faults>>

\* head of the loop over the groups: os.MkdirAll(runDir)
RunGroup(r) ==
  /\ run[r].pc = "group"
  /\ IF run[r].gi > Len(run[r].input.Groups)
     THEN /\ Step(r, [run[r] EXCEPT !.pc = "afterloop"])
          /\ UNCHANGED <<dirs, faults>>
     ELSE \E ok \in Outcomes :
            /\ Fault(ok)
            /\ IF ok
               THEN /\ dirs' = dirs \cup {<<r, run[r].gi>>}
                    /\ Step(r, [run[r] EXCEPT !.ii = 0, !.pc = "inst"])
               ELSE /\ dirs' = dirs
                    /\ Finish(r, run[r], FALSE, "rundir")
  /\ UNCHANGED <<controlNetworkID, outputsDir, infra, dataNets, conts, hcpc, hc>>

\* the template runenv of a run: plan, test case, run id and instance count of
\* the input (the caller r stands for its plan and its run id), and the subnet
\* of the data network
Template(r) ==
  [TestPlan |-> <<"plan", r>>, TestCase |-> run[r].input.Seq, TestRun |-> r,
   TestInstanceCount |-> run[r].input.TotalInstances, TestSubnet |-> run[r].k]

\* the runenv of a group, were the group's instance count written over the
\* instance count of the run
RunEnvCountOverwritten(r, g) ==
  [TestGroupID |-> g, TestGroupInstanceCount |-> run[r].input.Groups[g]]
    @@ [Template(r) EXCEPT !.TestInstanceCount = run[r].input.Groups[g]]

\* runenv := template with TestGroupID and TestGroupInstanceCount of the group
RunEnv(r, g) ==
  [TestGroupID |-> g, TestGroupInstanceCount |-> run[r].input.Groups[g]] @@ Template(r)

\* the container created for instance ii of group gi
NewContainer(r) ==
  [ctl |-> controlNetworkID # "", data |-> FALSE, running |-> FALSE,
   mount |-> <<r, run[r].gi, run[r].ii>>, env |-> RunEnv(r, run[r].gi)]

\* whether a pass reaches a successful cli.ContainerCreate, were the break
\* after a failed os.MkdirAll(odir) missing
ContainerCreatedDespiteOdir(res) == res # "create"

\* whether a pass reaches a successful cli.ContainerCreate: not after a failed
\* os.MkdirAll(odir) (break), not when ContainerCreate itself fails
ContainerCreated(res) == res \notin {"odir", "create"}

\* one pass of the loop over the instances of a group: os.MkdirAll(odir),
\* cli.ContainerCreate, attachContainerToNetwork; a failure breaks out of this
\* loop only, and the loop over the groups goes on
RunInstance(r) ==
  /\ run[r].pc = "inst"
  /\ LET rec == run[r]
         c == <<r, rec.gi, rec.ii>>
         next == [rec EXCEPT !.gi = @ + 1, !.pc = "group"]
         first(e) == IF rec.cerr = "nil" THEN e ELSE rec.cerr
     IN IF rec.ii >= rec.input.Groups[rec.gi]
        THEN /\ Step(r, next)
             /\ UNCHANGED <<dirs, conts, faults>>
        ELSE \E res \in (IF rec.cancelled THEN {"create"} ELSE {"ok"})
                          \cup (IF faults < MaxFaults
                                THEN (IF rec.cancelled THEN {"odir"} ELSE {"odir", "create", "attach"})
                                ELSE {}) :
               /\ Fault(res = "ok" \/ (rec.cancelled /\ res = "create"))
               /\ dirs' = IF res = "odir" THEN dirs ELSE dirs \cup {c}
               /\ conts' = IF ~ContainerCreated(res) THEN conts
                           ELSE (c :> [NewContainer(r) EXCEPT !.data = (res = "ok")]) @@ conts
               /\ IF res = "ok"
                  THEN Step(r, [rec EXCEPT !.containers = Append(@, c), !.err = "nil",
                                           !.onData = @ \cup {c}, !.ii = @ + 1])
                  ELSE IF res = "attach"
                  THEN Step(r, [next EXCEPT !.containers = Append(@, c), !.err = res,
                                            !.cerr = first(res)])
                  ELSE Step(r, [next EXCEPT !.err = res, !.cerr = first(res)])
  /\ UNCHANGED <<controlNetworkID, outputsDir, infra, dataNets, hcpc, hc>>

\* what follows the start phase, were every run a background run
AfterStartNoLogs(r, rec) == Finish(r, rec, TRUE, "nil")

\* what follows the start phase: the log phase, or the return of a background run
AfterStart(r, rec) ==
  IF ~rec.cfg.Background
  THEN Step(r, [rec EXCEPT !.li = 1, !.pc = "logs"])
  ELSE Finish(r, rec, TRUE, "nil")

\* after the loops: the teardown is deferred unless KeepContainers, then the
\* error of the loops aborts the run
RunAfterLoop(r) ==
  /\ run[r].pc = "afterloop"
  /\ LET rec == [run[r] EXCEPT !.deferred = ~run[r].cfg.KeepContainers]
     IN IF rec.err # "nil" THEN Finish(r, rec, FALSE, rec.err)
        ELSE IF ~rec.cfg.Unstarted THEN Step(r, [rec EXCEPT !.pc = "start"])
        ELSE AfterStart(r, rec)
  /\ UNCHANGED <<controlNetworkID, outputsDir, infra, dataNets, conts, dirs, hcpc, hc, faults>>

\* one goroutine of the errgroup: cli.ContainerStart(ctx, id); the first error
\* is the group's, and cancels ctx for the other goroutines
RunStart(r, c) ==
  /\ run[r].pc = "start"
  /\ c \in RangeOf(run[r].containers) \ run[r].tried
  /\ \E ok \in (IF c \notin DOMAIN conts \/ run[r].cancelled THEN {FALSE}
                ELSE IF run[r].gerr # "nil" THEN {TRUE, FALSE} ELSE Outcomes) :
       /\ faults' = IF ok \/ c \notin DOMAIN conts \/ run[r].gerr # "nil" \/ run[r].cancelled
                    THEN faults ELSE faults + 1
       /\ conts' = IF ok THEN [conts EXCEPT ![c].running = TRUE] ELSE conts
       /\ Step(r, [run[r] EXCEPT !.tried = @ \cup {c},
                                 !.gerr = IF ok \/ @ # "nil" THEN @ ELSE "start"])
  /\ UNCHANGED <<controlNetworkID, outputsDir, infra, dataNets, dirs, hcpc, hc>>

\* g.Wait(): on an error, deleteContainers is called and its result returned
RunStartWait(r) ==
  /\ run[r].pc = "start"
  /\ run[r].tried = RangeOf(run[r].containers)
  /\ IF run[r].gerr # "nil"
     THEN Step(r, [run[r] EXCEPT !.pc = "del", !.del = StartDel("start", run[r].containers)])
     ELSE AfterStart(r, run[r])
  /\ UNCHANGED <<controlNetworkID, outputsDir, infra, dataNets, conts, dirs, hcpc, hc, faults>>

\* one pass of the loop over the containers: cli.ContainerLogs and pretty.Manage;
\* on an error, deleteContainers is called and its result returned
RunLogs(r) ==
  /\ run[r].pc = "logs"
  /\ run[r].li <= Len(run[r].containers)
  /\ \E ok \in CtxOutcomes(r) :
       /\ CtxFault(r, ok)
       /\ IF ok
          THEN Step(r, [run[r] EXCEPT !.li = @ + 1])
          ELSE Step(r, [run[r] EXCEPT !.pc = "del", !.lerr = "logs",
                                      !.del = StartDel("logs", run[r].containers)])
  /\ UNCHANGED <<controlNetworkID, outputsDir, infra, dataNets, conts, dirs, hcpc, hc>>

\* return &api.RunOutput{...}, pretty.Wait()
RunLogsWait(r) ==
  /\ run[r].pc = "logs"
  /\ run[r].li > Len(run[r].containers)
  /\ \E ok \in Outcomes :
       /\ Fault(ok)
       /\ Finish(r, run[r], TRUE, IF ok THEN "nil" ELSE "wait")
  /\ UNCHANGED <<controlNetworkID, outputsDir, infra, dataNets, conts, dirs, hcpc, hc>>

\* the caller calls Run again after a run that has returned and has left
\* neither its data network nor a container behind
RunAgain(r) ==
  /\ run[r].pc = "returned"
  /\ dataNets[r] = -1
  /\ RangeOf(run[r].containers) \cap DOMAIN conts = {}
  /\ run' = [run EXCEPT ![r] = IdleRun]
  /\ UNCHANGED <<lk, controlNetworkID, outputsDir, infra, dataNets, conts, dirs, hcpc, hc, faults>>

\* the caller of Run cancels ctx while the run is in progress
RunCancel(r) ==
  /\ InFlight(r)
  /\ ~run[r].cancelled
  /\ run' = [run EXCEPT ![r].cancelled = TRUE, ![r].cnet = run[r].net]
  /\ UNCHANGED <<lk, controlNetworkID, outputsDir, infra, dataNets, conts, dirs, hcpc, hc, faults>>

(* --------------------------- deleteContainers -------------------------- *)

\* the engine without container c
Without(c) == [x \in DOMAIN conts \ {c} |-> conts[x]]

\* one goroutine: cli.ContainerRemove(id, Force), then blocked on errs <- result;
\* removing a container that does not exist is an error
DelRemove(r, c) ==
  /\ run[r].pc = "del"
  /\ c \in RangeOf(run[r].del.ids) \ run[r].del.removed
  /\ \E ok \in (IF c \in DOMAIN conts THEN Outcomes ELSE {FALSE}) :
       /\ faults' = IF ok \/ c \notin DOMAIN conts THEN faults ELSE faults + 1
       /\ conts' = IF ok THEN Without(c) ELSE conts
       /\ Step(r, [run[r] EXCEPT !.del.removed = @ \cup {c},
                                 !.del.pending = @ \cup {<<c, ok>>},
                                 !.del.failed = IF ok THEN @ ELSE @ \cup {c}])
  /\ UNCHANGED <<controlNetworkID, outputsDir, infra, dataNets, dirs, hcpc, hc>>

\* the receive loop after a receive of message m: the first receive of a pass
\* takes the error to test and log, and on a non-nil error a second receive
\* takes the value that is appended to merr
Received(del, m) ==
  IF ~del.second
  THEN IF m[2]
       THEN [del EXCEPT !.pending = @ \ {m}, !.i = @ + 1]
       ELSE [del EXCEPT !.pending = @ \ {m}, !.second = TRUE, !.logged = @ \cup {m[1]}]
  ELSE [del EXCEPT !.pending = @ \ {m}, !.second = FALSE, !.i = @ + 1,
                   !.merr = IF m[2] THEN @ ELSE @ \cup {m[1]}]

\* a receive from the channel errs of the loop for i := 0; i < len(ids); i++
DelRecv(r) ==
  /\ run[r].pc = "del"
  /\ run[r].del.i < Len(run[r].del.ids)
  /\ \E m \in run[r].del.pending :
       Step(r, [run[r] EXCEPT !.del = Received(@, m)])
  /\ UNCHANGED <<controlNetworkID, outputsDir, infra, dataNets, conts, dirs, hcpc, hc, faults>>

\* merr.ErrorOrNil()
ErrorOrNil(merr) == IF merr = {} THEN "nil" ELSE "teardown"

\* the end of the receive loop: close(errs) and return merr.ErrorOrNil(); the
\* call of the deferred teardown goes on to cli.NetworkRemove, the other two
\* calls are return statements of Run
DelReturn(r) ==
  /\ run[r].pc = "del"
  /\ run[r].del.i = Len(run[r].del.ids)
  /\ LET rec == [run[r] EXCEPT !.del.call = "done"]
     IN IF run[r].del.call = "defer"
        THEN Step(r, [rec EXCEPT !.pc = "netremove"])
        ELSE Finish(r, rec, FALSE, ErrorOrNil(run[r].del.merr))
  /\ UNCHANGED <<controlNetworkID, outputsDir, infra, dataNets, conts, dirs, hcpc, hc, faults>>

\* the networks of the engine: the control network and the data network of a run
ControlNet == <<"ctl", 0>>

DataNet(r) == <<"data", r>>

\* the network the teardown removes, were it the runner's control network
TeardownNetworkControl(r) == ControlNet

\* the network the teardown removes, were it the data network of the first run
TeardownNetworkOfFirst(r) == DataNet(1)

\* the network the teardown removes: cli.NetworkRemove(ctx, dataNetworkID)
TeardownNetwork(r) == DataNet(r)

\* the deferred teardown: cli.NetworkRemove(dataNetworkID), its error is logged;
\* then the deferred RUnlock
RunNetworkRemove(r) ==
  /\ run[r].pc = "netremove"
  /\ \E ok \in Outcomes :
       LET id == TeardownNetwork(r)
       IN /\ Fault(ok)
          /\ dataNets' = IF ok /\ id[1] = "data" THEN [dataNets EXCEPT ![id[2]] = -1] ELSE dataNets
          /\ infra' = IF ok /\ id[1] = "ctl" THEN [infra EXCEPT !.ctlNet = FALSE] ELSE infra
          /\ run' = [run EXCEPT ![r].pc = "returned", ![r].del.call = IF ok THEN "done" ELSE "netfail"]
          /\ lk' = [lk EXCEPT !.readers = @ \ {r}]
  /\ UNCHANGED <<controlNetworkID, outputsDir, conts, dirs, hcpc, hc>>

(* --------------------------- specifications ---------------------------- *)

RunSteps(r) ==
  \/ RunListNetworks(r)
  \/ RunNewBridgeNetwork(r)
  \/ RunMerge(r)
  \/ RunGroup(r)
  \/ RunInstance(r)
  \/ RunAfterLoop(r)
  \/ \E c \in ContainerIDs : RunStart(r, c)
  \/ RunStartWait(r)
  \/ RunLogs(r)
  \/ RunLogsWait(r)
  \/ \E c \in ContainerIDs : DelRemove(r, c)
  \/ DelRecv(r)
  \/ DelReturn(r)
  \/ RunNetworkRemove(r)

Healthchecks ==
  \E h \in Checkers : HcBegin(h) \/ HcCheck(h) \/ HcFix(h)

\* one caller of Run with every input, and the callers of Healthcheck
Next ==
  \/ RunBegin(1, SingleInputs)
  \/ RunSteps(1)
  \/ Healthchecks

Spec == Init /\ [][Next]_vars

\* concurrent callers of Run, and the callers of Healthcheck
NextConc ==
  \/ \E r \in Runs : RunBegin(r, ConcInputs)
  \/ \E r \in Runs : RunSteps(r)
  \/ Healthchecks

SpecConc == Init /\ [][NextConc]_vars

\* one caller of Run with every value of Seq, and the callers of Healthcheck
NextSeq ==
  \/ RunBegin(1, SeqInputs)
  \/ RunSteps(1)
  \/ Healthchecks

SpecSeq == Init /\ [][NextSeq]_vars

\* concurrent callers of Run and the callers of Healthcheck, on an engine
\* whose calls never fail
NextLock ==
  \/ \E r \in Runs : RunBegin(r, LockInputs)
  \/ \E r \in Runs : RunSteps(r)
  \/ Healthchecks

SpecLock == InitReliable /\ [][NextLock]_vars

\* the inputs explored for a cancelled run: one group of one instance, a
\* configuration that merges and asks for the teardown
CancelInputs ==
  {in \in RunInputs :
     /\ in.Seq = 0
     /\ in.Groups = <<1>>
     /\ in.TotalInstances = 1
     /\ in.cfgOk
     /\ ~in.RunnerConfig.KeepContainers}

\* one caller of Run who may cancel ctx at any time, every engine call that
\* is not made with a cancelled ctx succeeding
NextCancel ==
  \/ RunBegin(1, CancelInputs)
  \/ RunSteps(1)
  \/ RunCancel(1)
  \/ Healthchecks

SpecCancel == InitReliable /\ [][NextCancel]_vars

\* the inputs explored for the environment of the containers: every list of
\* groups, with containers that are neither started nor removed
EnvInputs ==
  {in \in RunInputs :
     /\ in.Seq = 0
     /\ in.TotalInstances = SumSeq(in.Groups)
     /\ in.cfgOk
     /\ in.RunnerConfig = [KeepContainers |-> TRUE, Unstarted |-> TRUE, Background |-> TRUE]}

\* one caller of Run, every engine call succeeding
NextEnv ==
  \/ RunBegin(1, EnvInputs)
  \/ RunListNetworks(1)
  \/ RunNewBridgeNetwork(1)
  \/ RunMerge(1)
  \/ RunGroup(1)
  \/ RunInstance(1)
  \/ RunAfterLoop(1)

SpecEnv == InitReliable /\ [][NextEnv]_vars

\* the inputs explored for the choice of the data subnet: one group of one
\* instance, created, not started, and removed by the teardown
AllocInputs ==
  {in \in RunInputs :
     /\ in.Seq = 0
     /\ in.Groups = <<1>>
     /\ in.TotalInstances = 1
     /\ in.cfgOk
     /\ in.RunnerConfig = [KeepContainers |-> FALSE, Unstarted |-> TRUE, Background |-> TRUE]}

\* callers who call Run time and again, every engine call succeeding
NextAlloc ==
  \E r \in Runs :
    \/ RunBegin(r, AllocInputs)
    \/ RunListNetworks(r)
    \/ RunNewBridgeNetwork(r)
    \/ RunMerge(r)
    \/ RunGroup(r)
    \/ RunInstance(r)
    \/ RunAfterLoop(r)
    \/ \E c \in ContainerIDs : DelRemove(r, c)
    \/ DelRecv(r)
    \/ DelReturn(r)
    \/ RunNetworkRemove(r)
    \/ RunAgain(r)

SpecAlloc == InitReliable /\ [][NextAlloc]_vars

\* the callers of Healthcheck on a system in any state
NextHealth == Healthchecks

SpecHealth == InitAny /\ [][NextHealth]_vars

(* ------------------------------- claims -------------------------------- *)

InProgress(r) == run[r].pc \notin {"idle", "returned"}

Returned(r) == run[r].pc = "returned"

\* the containers a run created that still exist in the engine
Remaining(r) == RangeOf(run[r].containers) \cap DOMAIN conts

\* the teardown of a run has left nothing behind
TornDown(r) == Remaining(r) = {} /\ dataNets[r] = -1

\* C1: with KeepContainers=false, on every exit path after the data network
\* was created, when Run returns none of its containers exists and its data
\* network no longer exists (a network removal that the engine itself refused
\* is not held against the run)
C1_TeardownOnEveryExit ==
  \A r \in Runs :
    (/\ Returned(r)
     /\ run[r].net
     /\ ~run[r].input.RunnerConfig.KeepContainers
     /\ run[r].del.call # "netfail")
    => TornDown(r)

\* C2: Run holds the lock in shared mode and Healthcheck in exclusive mode for
\* their whole duration: while a Healthcheck is in progress no Run is in
\* progress and no other Healthcheck is
C2_RunsExcludeHealthcheck ==
  /\ \A r \in Runs : InProgress(r) => r \in lk.readers
  /\ \A h \in Checkers :
       hcpc[h] # "idle" =>
         /\ lk.writer = h
         /\ \A r \in Runs : ~InProgress(r)
         /\ \A g \in Checkers \ {h} : hcpc[g] = "idle"

\* C2: two runs are in progress at the same time, after a healthcheck
C2_TwoRunsInProgress ==
  /\ InProgress(1) /\ InProgress(2)
  /\ hc.Checks # <<>>

\* C3: when a container start or a log attachment failed, the error Run
\* returns is that failure, never nil and never the result of the teardown
C3_PrimaryErrorReturned ==
  \A r \in Runs :
    (Returned(r) /\ (run[r].gerr # "nil" \/ run[r].lerr # "nil"))
    => run[r].ret.err = (IF run[r].gerr # "nil" THEN run[r].gerr ELSE run[r].lerr)

\* C4: after a creation error (output directory, container create, attach) of
\* any instance of any group, no container of the run is started, Run returns
\* an error, and the teardown of containers and data network is performed
C4_CreationErrorAborts ==
  \A r \in Runs :
    run[r].cerr # "nil" =>
      /\ run[r].tried = {}
      /\ Returned(r) =>
           /\ run[r].ret.err # "nil"
           /\ (~run[r].cfg.KeepContainers /\ run[r].del.call # "netfail") => TornDown(r)

\* C5: a Run that returns successfully with TotalInstances = N has created
\* exactly N containers, each attached to the control network and to the data
\* network (stated for inputs whose group counts add up to N, on a runner
\* whose control network is set)
C5_SuccessMeansAllCreated ==
  \A r \in Runs :
    (/\ Returned(r) /\ run[r].ret.out /\ run[r].ret.err = "nil"
     /\ SumSeq(run[r].input.Groups) = run[r].input.TotalInstances
     /\ run[r].ctlID # "")
    => /\ Len(run[r].containers) = run[r].input.TotalInstances
       /\ run[r].onData = RangeOf(run[r].containers)

\* C6: a Run that starts while controlNetworkID / outputsDir are unset fails
\* with an error and creates no network and no container
C6_UninitialisedRunFails ==
  \A r \in Runs :
    (run[r].pc # "idle" /\ (run[r].ctlID = "" \/ run[r].outDir = ""))
    => /\ ~run[r].net
       /\ run[r].containers = <<>>
       /\ Returned(r) => run[r].ret.err # "nil"

\* C7: two runs executing concurrently choose different subnets for their data
\* networks, and both complete successfully when no engine call fails
C7_ConcurrentRunsDistinctSubnets ==
  /\ \A r, q \in Runs :
       (r # q /\ InProgress(r) /\ InProgress(q) /\ run[r].k # -1 /\ run[q].k # -1)
       => run[r].k # run[q].k
  /\ \A r \in Runs :
       (Returned(r) /\ faults = 0 /\ run[r].input.Seq \in 0 .. NumTestCases - 1)
       => run[r].ret.err = "nil"

\* the input of a run has a group with a non-positive instance count, or group
\* counts that do not add up to TotalInstances
BadGroups(in) ==
  \/ \E g \in DOMAIN in.Groups : in.Groups[g] <= 0
  \/ SumSeq(in.Groups) # in.TotalInstances

\* C8: Run rejects an input with a non-positive group instance count, or whose
\* group counts do not add up to TotalInstances, before it creates any
\* network, directory or container
C8_BadGroupsRejected ==
  \A r \in Runs :
    (run[r].pc # "idle" /\ BadGroups(run[r].input))
    => /\ ~run[r].net
       /\ run[r].containers = <<>>
       /\ \A d \in dirs : d[1] # r
       /\ Returned(r) => run[r].ret.err # "nil"

\* C9: when Seq is negative or not below the number of test cases, Run returns
\* an error and has created no data network, no container and no directory
C9_InvalidSeqRejected ==
  \A r \in Runs :
    (run[r].pc # "idle"
     /\ (run[r].input.Seq < 0 \/ run[r].input.Seq >= NumTestCases))
    => /\ Returned(r)
       /\ run[r].ret = [out |-> FALSE, err |-> "seq"]
       /\ ~run[r].net /\ dataNets[r] = -1 /\ run[r].k = -1
       /\ run[r].containers = <<>>
       /\ \A c \in DOMAIN conts : c[1] # r
       /\ \A d \in dirs : d[1] # r

\* C9: a Run with Seq equal to the number of test cases has returned, on a
\* runner whose healthcheck has set the shared state
C9_SeqAtLengthReturned ==
  /\ Returned(1)
  /\ run[1].input.Seq = NumTestCases
  /\ run[1].ctlID # ""

\* every goroutine of a deleteContainers call has removed and delivered
AllDelivered(del) ==
  /\ del.call # "none"
  /\ del.ids # <<>>
  /\ del.removed = RangeOf(del.ids)
  /\ del.pending = {}

\* C10: deleteContainers collects every removal error without losing any: once
\* every removal result has been delivered, the composite error holds exactly
\* the containers whose removal failed, and the receive loop is over
C10_AllRemovalErrorsCollected ==
  \A r \in Runs :
    AllDelivered(run[r].del)
    => /\ run[r].del.merr = run[r].del.failed
       /\ run[r].del.i = Len(run[r].del.ids)
       /\ ~run[r].del.second

\* ---- Healthcheck reports ----

\* Healthcheck has returned a report (and no error)
Reported == hc.done /\ hc.err = "nil"

\* the statuses of the fix entries of one name in the report
FixStatuses(name) ==
  {hc.Fixes[i].Status : i \in {j \in DOMAIN hc.Fixes : hc.Fixes[j].Name = name}}

\* a repair whose control network check was not OK and whose
\* ensureControlNetwork failed
CtlNetStillDown ==
  Reported /\ hc.fix /\ hc.Checks[1].Status # "OK" /\ "net" \in hc.failedFixes

\* C11 as stated: when the control network is still not OK after its fix
\* attempt, the report has an Omitted entry for redis and one for the sidecar,
\* whatever their check results, and neither ensure function is called
C11_BothOmittedWheneverNoNetwork ==
  CtlNetStillDown =>
    /\ FixStatuses("redis-container") = {"Omitted"}
    /\ FixStatuses("sidecar-container") = {"Omitted"}
    /\ hc.ensured \cap {"redis", "sidecar"} = {}

\* C11 amended: when the control network is still not OK after its fix
\* attempt, redis and sidecar each get an Omitted fix entry exactly when their
\* check item (third and fourth of Checks) is not OK, and no entry when it is
\* OK; no entry of theirs is Failed or OK, and neither ensure function is called
C11_OmittedWhereCheckNotOK ==
  CtlNetStillDown =>
    /\ FixStatuses("redis-container")
         = (IF hc.Checks[3].Status = "OK" THEN {} ELSE {"Omitted"})
    /\ FixStatuses("sidecar-container")
         = (IF hc.Checks[4].Status = "OK" THEN {} ELSE {"Omitted"})
    /\ hc.ensured \cap {"redis", "sidecar"} = {}

\* C11 witness: the control network fix failed, the redis check was OK and the
\* sidecar check was not
C11_NoNetworkRedisHealthy ==
  /\ CtlNetStillDown
  /\ hc.Checks[3].Status = "OK"
  /\ hc.Checks[4].Status # "OK"
  /\ FixStatuses("sidecar-container") = {"Omitted"}

\* the names of the four checks, in the order of the report
CheckNames == <<"control-network", "outputs-dir", "redis-container", "sidecar-container">>

\* C12: every returned report has exactly four check items, named
\* control-network, outputs-dir, redis-container, sidecar-container in this
\* order, whatever the state of the system
C12_FourNamedChecks ==
  Reported =>
    /\ Len(hc.Checks) = 4
    /\ \A i \in 1..4 : hc.Checks[i].Name = CheckNames[i]

\* the check call behind the i-th item, and whether the component it looks at
\* was healthy when the checks ran
CheckCall == <<"net", "stat", "redis", "sidecar">>

Healthy(i) ==
  CASE i = 1 -> hc.before.ctlNet
    [] i = 2 -> hc.before.outputs
    [] i = 3 -> hc.before.redis = "running"
    [] OTHER -> hc.before.sidecar = "running"

\* the status the i-th component's own state calls for
OwnStatus(i) ==
  IF CheckCall[i] \in hc.errs THEN "Aborted"
  ELSE IF Healthy(i) THEN "OK"
  ELSE "Failed"

\* C13: the status of each check item is the one its own component's state
\* calls for (OK, Failed, or Aborted when the check call errored); so a
\* Healthcheck(fix = false) of a fresh system reports Failed four times
C13_StatusReflectsOwnState ==
  Reported => \A i \in 1..4 : hc.Checks[i].Status = OwnStatus(i)

\* a Healthcheck(fix = false) has returned its report, no check call of it
\* errored, and the call before it was a Healthcheck(fix = true) whose fix
\* attempts all reported OK
CheckedAfterRepair ==
  Reported /\ ~hc.fix /\ hc.errs = {} /\ hc.prev \in {"repaired", "healthy"}

\* C14: from any system state, a Healthcheck(fix = false) that follows a
\* Healthcheck(fix = true) whose fix attempts all reported OK (nothing else
\* having changed the system, no check call erroring) reports OK for all four
\* checks and leaves controlNetworkID and outputsDir set
C14_RepairThenAllOK ==
  CheckedAfterRepair =>
    /\ \A i \in 1..4 : hc.Checks[i].Status = "OK"
    /\ controlNetworkID # ""
    /\ outputsDir # ""

\* C14 witness: such a check after a repair that did fix something
C14_CheckedAfterRealRepair ==
  CheckedAfterRepair /\ hc.prev = "repaired" /\ controlNetworkID = "ctl"

\* whether the object a fix call looks after existed when the checks ran
Existed(x) ==
  CASE x = "net" -> hc.before.ctlNet
    [] x = "dir" -> hc.before.outputs
    [] x = "redis" -> hc.before.redis # "missing"
    [] OTHER -> hc.before.sidecar # "missing"

\* a Healthcheck(fix = true) has returned its report for a system that was
\* healthy, no check call having errored
RepairedHealthy ==
  Reported /\ hc.fix /\ hc.errs = {} /\ \A i \in 1..4 : Healthy(i)

\* C15: a Healthcheck(fix = true) of an already healthy system reports OK for
\* all four checks and no fix item, calls no ensure function and leaves the
\* engine and the outputs directory as they were; and no repair creates a
\* control network, redis or sidecar where one existed
C15_RepairOfHealthyIsNoOp ==
  /\ RepairedHealthy =>
       /\ \A i \in 1..4 : hc.Checks[i].Status = "OK"
       /\ hc.Fixes = <<>>
       /\ hc.ensured = {}
       /\ infra = hc.before
  /\ Reported /\ hc.fix => \A x \in hc.created : ~Existed(x)

\* C15 witness: a second repair, right after one that fixed something, has
\* returned for a healthy system
C15_SecondRepair ==
  RepairedHealthy /\ hc.prev = "repaired" /\ hc.Fixes = <<>>

\* C16: a Healthcheck(fix = false) creates no network, directory or container
\* whatever the state of the system (it calls no ensure function, and the
\* engine and the outputs directory are as they were when it checked them),
\* and its report has no fix items
C16_CheckOnlyCreatesNothing ==
  hc.done /\ ~hc.fix =>
    /\ hc.Fixes = <<>>
    /\ hc.ensured = {}
    /\ hc.created = {}
    /\ Reported => infra = hc.before

\* C16 witness: a Healthcheck(fix = false) has returned its report for a system
\* with nothing in place, and nothing is in place after it
C16_CheckedUnhealthy ==
  /\ Reported /\ ~hc.fix
  /\ \A i \in 1..4 : ~Healthy(i)
  /\ infra = hc.before

\* the fix call behind each fix entry name
FixNames == [net |-> "control-network", dir |-> "outputs-dir",
             redis |-> "redis-container", sidecar |-> "sidecar-container"]

\* C17: a failing check or fix is reflected in the returned report and not
\* raised as an error: Healthcheck returns an error only when the engine client
\* cannot be had, and otherwise a report in which every component whose check
\* failed or errored has a check item of its name with status Failed or
\* Aborted, and every failed fix call a fix item of its name with status Failed
C17_FailuresReportedNotRaised ==
  hc.done =>
    /\ hc.err # "nil" => hc.err = "client" /\ hc.errs = {} /\ hc.failedFixes = {}
    /\ Reported =>
         /\ \A i \in 1..4 :
              OwnStatus(i) # "OK" =>
                \E j \in DOMAIN hc.Checks :
                  /\ hc.Checks[j].Name = CheckNames[i]
                  /\ hc.Checks[j].Status \in {"Failed", "Aborted"}
         /\ \A x \in hc.failedFixes : "Failed" \in FixStatuses(FixNames[x])

\* ---- KeepContainers, the singletons, the data subnets ----

\* C18: with KeepContainers = true, Run removes none of the containers it
\* created and does not remove its data network, on any exit path (success,
\* start failure, log-attach failure); after a successful run (on an initialised
\* runner, every creation having succeeded) all created containers exist and
\* are attached to the control network and to the data network
C18_KeepContainersKeepsAll ==
  \A r \in Runs :
    (run[r].pc # "idle" /\ run[r].cfg.KeepContainers) =>
      /\ Remaining(r) = RangeOf(run[r].containers)
      /\ run[r].net => dataNets[r] # -1
      /\ (/\ Returned(r) /\ run[r].ret.out /\ run[r].ret.err = "nil"
          /\ run[r].ctlID # "" /\ run[r].cerr = "nil")
         => \A c \in RangeOf(run[r].containers) :
              c \in DOMAIN conts /\ conts[c].ctl /\ conts[c].data

\* C19: no step of any Run, on any exit path and in any interleaving of runs,
\* removes or recreates the control network, the redis container or the
\* sidecar container, and none changes controlNetworkID or outputsDir
C19_RunsLeaveSingletonsAlone ==
  [][run' # run =>
       /\ infra' = infra
       /\ controlNetworkID' = controlNetworkID
       /\ outputsDir' = outputsDir]_vars

\* C19 witness: two runs have returned after their teardown, and the control
\* network, redis and sidecar of the repair before them are in place
C19_RunsDoneSingletonsInPlace ==
  /\ \A r \in Runs : Returned(r) /\ run[r].del.call = "done"
  /\ infra = [ctlNet |-> TRUE, outputs |-> TRUE, redis |-> "running", sidecar |-> "running"]
  /\ controlNetworkID = "ctl" /\ outputsDir = "outputs"

\* C20 as stated: the k-th data network ever created, counting those of all
\* runs and those since removed, uses the k-th subnet of the allocator's
\* sequence, and no data network's subnet is the control subnet
C20_KthEverCreatedGetsKthSubnet ==
  \A r \in Runs :
    run[r].net =>
      /\ run[r].k = nextDataNetwork(run[r].ord)
      /\ run[r].k # controlSubnet

\* C20 amended: a data network uses the subnet whose place in the allocator's
\* sequence is the number of data networks that existed when its run listed
\* them (removed networks are not counted), and no data network's subnet is
\* the control subnet
C20_SubnetIsCountWhenListed ==
  \A r \in Runs :
    run[r].net =>
      /\ run[r].k = nextDataNetwork(run[r].listed)
      /\ run[r].k # controlSubnet
      /\ dataNets[r] \in {-1, run[r].k}

\* C20 witness: the second data network ever created uses the first subnet,
\* the first network having been removed before the second run listed them
C20_SecondNetworkFirstSubnet ==
  \E r \in Runs :
    run[r].net /\ run[r].ord = 1 /\ run[r].listed = 0 /\ run[r].k = 0

\* ---- cancellation, directories, environment, termination ----

\* the receive loop of deleteContainers waits for a message that no goroutine
\* is left to send
Stuck(r) ==
  /\ run[r].pc = "del"
  /\ run[r].del.i < Len(run[r].del.ids)
  /\ run[r].del.pending = {}
  /\ run[r].del.removed = RangeOf(run[r].del.ids)

\* C21: when the ctx of a run (KeepContainers = false) is cancelled after its
\* data network was created, the teardown is still carried out with fresh
\* contexts: the run does not get stuck, and when it has returned every
\* created container and the data network were submitted for removal
C21_CancelledRunTearsDown ==
  \A r \in Runs :
    (run[r].cancelled /\ run[r].cnet /\ ~run[r].input.RunnerConfig.KeepContainers) =>
      /\ ~Stuck(r)
      /\ Returned(r) =>
           /\ run[r].del.call \in {"done", "netfail"}
           /\ RangeOf(run[r].containers) \subseteq run[r].del.removed

\* C22: the output directory of an instance exists before the container of
\* that instance is created (hence before it is started), and it is the
\* directory mounted at /outputs in that container; when the directory could
\* not be created there is no container for the instance
C22_OutputsDirBeforeContainer ==
  \A c \in ContainerIDs :
    /\ c \in DOMAIN conts => c \in dirs /\ conts[c].mount = c
    /\ c \notin dirs => c \notin DOMAIN conts /\ \A r \in Runs : c \notin RangeOf(run[r].containers)

\* C22 witness: a container is running with the output directory of its own
\* instance mounted
C22_RunningWithOwnDir ==
  \E c \in DOMAIN conts : conts[c].running /\ c \in dirs /\ conts[c].mount = c

\* the fields of the runenv that all containers of a run share
SharedEnv == {"TestPlan", "TestCase", "TestRun", "TestSubnet", "TestInstanceCount"}

\* C23: all containers of one run carry the same TestPlan, TestCase, TestRun,
\* TestSubnet and TestInstanceCount, which are those of the run's input and
\* the subnet of the run's data network, while TestGroupID and
\* TestGroupInstanceCount are those of the container's own group
C23_EnvOfRunAndGroup ==
  \A c \in DOMAIN conts :
    LET r == c[1]
        env == conts[c].env
    IN /\ \A d \in DOMAIN conts :
            d[1] = r => \A f \in SharedEnv : conts[d].env[f] = env[f]
       /\ env.TestRun = r
       /\ env.TestCase = run[r].input.Seq
       /\ env.TestInstanceCount = run[r].input.TotalInstances
       /\ env.TestSubnet = run[r].k /\ dataNets[r] \in {-1, env.TestSubnet}
       /\ env.TestGroupID = c[2]
       /\ env.TestGroupInstanceCount = run[r].input.Groups[c[2]]

\* C23 witness: a run has returned with containers of two groups of
\* different sizes
C23_TwoGroupsCreated ==
  /\ Returned(1)
  /\ \E c, d \in DOMAIN conts :
       /\ c[2] # d[2]
       /\ conts[c].env.TestGroupInstanceCount # conts[d].env.TestGroupInstanceCount
       /\ conts[c].env.TestInstanceCount = conts[d].env.TestInstanceCount

\* C24: a Run that has been called always has a next step to take until it
\* returns and releases its read lock, every engine call returning with
\* success or with an error; in particular deleteContainers returns when
\* removals fail, also the removal of a container that an earlier
\* deleteContainers of the same run has removed
C24_RunNeverBlocked ==
  \A r \in Runs :
    /\ InFlight(r) => ENABLED RunSteps(r)
    /\ Returned(r) => r \notin lk.readers

\* C25: newDataNetwork never chooses the subnet of an existing data network,
\* also for runs that start one after another and finish in any order, and
\* two data networks that exist at the same time have different subnets
C25_ChosenSubnetFree ==
  /\ \A r \in Runs : ~run[r].inuse
  /\ \A r, q \in Runs : (r # q /\ dataNets[r] # -1) => dataNets[r] # dataNets[q]

\* ---- phases of a run ----

\* C26: no container of a run is started before every container of the run
\* (one for each instance of each group) has been created and attached to the
\* data network; the result of the start phase is nil only if every start
\* succeeded
C26_AllCreatedBeforeAnyStart ==
  \A r \in Runs :
    run[r].tried # {} =>
      /\ Len(run[r].containers) = SumSeq(run[r].input.Groups)
      /\ run[r].onData = RangeOf(run[r].containers)
      /\ (run[r].tried = RangeOf(run[r].containers) /\ run[r].gerr = "nil")
           => \A c \in run[r].tried : c \in DOMAIN conts => conts[c].running

\* C27: in the teardown of a run with KeepContainers = false the data network
\* is removed only after the removal of every created container has
\* completed, with or without success, and whenever the removals of the
\* containers were attempted the removal of the data network is attempted too:
\* it has been attempted when the run has returned, and before that the run
\* is not left waiting in deleteContainers
C27_NetworkRemovedAfterContainers ==
  \A r \in Runs :
    (run[r].deferred /\ ~run[r].cfg.KeepContainers) =>
      /\ (run[r].net /\ dataNets[r] = -1) =>
           /\ RangeOf(run[r].containers) \subseteq run[r].del.removed
           /\ run[r].del.pending = {}
      /\ run[r].del.removed # {} =>
           IF Returned(r) THEN run[r].del.call \in {"done", "netfail"} ELSE ~Stuck(r)

\* Run has returned its output with a nil error (its deferred teardown may
\* still be at work)
Succeeded(r) == run[r].ret.out /\ run[r].ret.err = "nil"

\* C28: with Background = false a Run that returns successfully has attached
\* to the log stream of every container it created, and returns only from
\* pretty.Wait(), which it calls after the last attachment; with
\* Background = true Run attaches to no log stream, and returns right after
\* the start phase
C28_LogsOfEveryContainer ==
  \A r \in Runs :
    /\ (Succeeded(r) /\ ~run[r].cfg.Background) =>
         run[r].li = Len(run[r].containers) + 1
    /\ run[r].cfg.Background => run[r].li = 1 /\ run[r].pc # "logs"
    /\ run[r].pc = "logs" => run[r].del.call = "none" /\ ~run[r].ret.out

\* C28 witness: a run with Background = false has returned successfully
\* after it attached to the log stream of its container
C28_ReturnedAfterLogs ==
  \E r \in Runs :
    /\ Succeeded(r) /\ ~run[r].cfg.Background
    /\ Len(run[r].containers) = 1
    /\ run[r].li = 2

\* the fix call behind the i-th component
FixCall == <<"net", "dir", "redis", "sidecar">>

\* C29: in a Healthcheck(fix = true) a component has a fix entry of its name
\* in Fixes if and only if its own check was not OK, and a fix is attempted
\* only for such a component: a component found healthy is not ensured again
\* and has no fix entry, whatever the state of the other components
C29_FixOnlyWhatFailedItsCheck ==
  (Reported /\ hc.fix) =>
    \A i \in 1..4 :
      /\ (FixStatuses(CheckNames[i]) # {}) <=> (OwnStatus(i) # "OK")
      /\ FixCall[i] \in hc.ensured => OwnStatus(i) # "OK"

\* the Healthcheck that has returned found the control network or created it
ControlNetworkEstablished ==
  Reported /\ (hc.Checks[1].Status = "OK" \/ "OK" \in FixStatuses("control-network"))

\* C30: after a Healthcheck has returned, controlNetworkID is non-empty if and
\* only if that Healthcheck found the control network (check OK) or created it
\* (fix OK), so the id of an earlier Healthcheck is never kept; the shared
\* state changes only in a Healthcheck that holds the lock exclusively, so it
\* is the same throughout a Run, and every container of a run is created
\* with the controlNetworkID and the outputsDir the run began with
C30_SharedStateOfLastHealthcheck ==
  /\ hc.done => (controlNetworkID # "" <=> ControlNetworkEstablished)
  /\ \A h \in Checkers : hcpc[h] # "idle" => lk.writer = h /\ lk.readers = {}
  /\ \A r \in Runs :
       InFlight(r) => controlNetworkID = run[r].ctlID /\ outputsDir = run[r].outDir
  /\ \A c \in DOMAIN conts : conts[c].ctl = (run[c[1]].ctlID # "")

\* C30 witness: after a Healthcheck that established the control network, a
\* Healthcheck(fix = false) whose control network check errored has returned,
\* and controlNetworkID is empty
C30_StaleIdDropped ==
  /\ Reported /\ ~hc.fix
  /\ hc.prev \in {"repaired", "healthy"}
  /\ hc.Checks[1].Status = "Aborted"
  /\ infra.ctlNet
  /\ controlNetworkID = ""

\* C31: in any interleaving of concurrent runs, a step of a Run removes only
\* containers whose ids that Run obtained from its own create calls and only
\* the data network that Run created: no container and no data network of
\* another run disappears in a step of the Run
C31_TeardownRemovesOnlyOwn ==
  [][\A r \in Runs :
       run'[r] # run[r] =>
         /\ DOMAIN conts \ DOMAIN conts' \subseteq RangeOf(run[r].containers)
         /\ \A c \in DOMAIN conts \ DOMAIN conts' : c[1] = r
         /\ \A q \in Runs :
              dataNets[q] # -1 /\ dataNets'[q] = -1 => q = r /\ run[r].net]_vars

\* C31 witness: a run has returned from its teardown, its container and its
\* data network removed, while another run that was created beside it still
\* has its container and its data network
C31_OneTornDownOtherIntact ==
  \E r, q \in Runs :
    /\ r # q
    /\ Returned(r) /\ run[r].del.call = "done"
    /\ run[r].containers # <<>> /\ TornDown(r)
    /\ InProgress(q)
    /\ Remaining(q) # {} /\ Remaining(q) = RangeOf(run[q].containers)
    /\ dataNets[q] # -1

====
